---- MODULE Spec2Model ----
(***************************************************************************)
(* WorkTimer: the event log (worktimer.core.database.Database), the timer  *)
(* service on top of it (worktimer.core.worktimer.WorkTimer) and the clock *)
(* accessor (worktimer.core.util.now).                                     *)
(*                                                                         *)
(* A datetime is a record [day, tod, us]: the date's ordinal (as in        *)
(* date.toordinal, shifted so that 0 is Saturday 2023-12-30), the second   *)
(* of the day and the microsecond.  The table stores timestamps as ISO     *)
(* text; the text is modelled by its fixed-width fields                    *)
(* <<year, month, day, hour, minute, second>> (and the microsecond field   *)
(* when it is not zero), compared field by field as SQLite compares the    *)
(* zero-padded text.                                                       *)
(***************************************************************************)
EXTENDS Integers, Sequences, FiniteSets, TLC

\* ------------------------------------------------------------------ bounds

\* The clock runs over the days 0..MaxDay.
MaxDay == 2
\* The table holds at most MaxRows rows.
MaxRows == 5

\* ------------------------------------------------------- program constants

END_HOUR == 23
END_MINUTE == 59
END_SECOND == 59
START_HOUR == 0
START_MINUTE == 0
START_SECOND == 0
DAYS_PER_WEEK == 7

\* ------------------------------------------------------------- the calendar

\* The second of the day of hour:minute:second, and back.
TimeOfDay(h, mi, s) == (h * 60 + mi) * 60 + s
HourOf(tod) == tod \div (60 * 60)
MinuteOf(tod) == (tod \div 60) % 60
SecondOf(tod) == tod % 60

\* date(y, m, d) of an ordinal, for the window 2023-12-02 .. 2024-01-31
\* (ordinal 0 is Saturday 2023-12-30, ordinal 2 is Monday 2024-01-01).
DateFields(day) ==
    IF day <= 1 THEN <<2023, 12, 30 + day>> ELSE <<2024, 1, day - 1>>

\* The ordinal of date(y, m, d), in the same window.
DateOrdinal(y, m, d) ==
    IF y = 2023 THEN d - 30 ELSE d + 1

\* A variant of weekday that counts from Sunday: C11 must tell it from
\* date.weekday().
weekday_from_sunday(day) == (day + 6) % DAYS_PER_WEEK

\* date.weekday(): Monday is 0.
weekday(day) == (day + 5) % DAYS_PER_WEEK

\* datetime(year, month, day, hour, minute, second)
datetime(ymd, h, mi, s) ==
    [day |-> DateOrdinal(ymd[1], ymd[2], ymd[3]),
     tod |-> TimeOfDay(h, mi, s),
     us  |-> 0]

\* datetime.isoformat(): 'YYYY-MM-DDTHH:MM:SS', with '.ffffff' when the
\* microsecond is not zero.
isoformat(dt) ==
    DateFields(dt.day)
    \o <<HourOf(dt.tod), MinuteOf(dt.tod), SecondOf(dt.tod)>>
    \o (IF dt.us = 0 THEN <<>> ELSE <<dt.us>>)

\* datetime.fromisoformat()
fromisoformat(text) ==
    [day |-> DateOrdinal(text[1], text[2], text[3]),
     tod |-> TimeOfDay(text[4], text[5], text[6]),
     us  |-> IF Len(text) > 6 THEN text[7] ELSE 0]

\* A variant of DatePattern that keeps the year and the month only: C10
\* must tell it from the pattern of the date.
DatePatternOfMonth(dt) == SubSeq(DateFields(dt.day), 1, 2)

\* date.isoformat() + "%": the LIKE pattern 'YYYY-MM-DD%'.
DatePattern(dt) == DateFields(dt.day)

\* text LIKE 'YYYY-MM-DD%'
Like(text, pattern) ==
    /\ Len(text) >= Len(pattern)
    /\ SubSeq(text, 1, Len(pattern)) = pattern

\* SQLite's comparison of two TEXT values: a < b.
RECURSIVE TextLess(_, _)
TextLess(a, b) ==
    IF a = <<>> THEN b # <<>>
    ELSE IF b = <<>> THEN FALSE
    ELSE IF Head(a) # Head(b) THEN Head(a) < Head(b)
    ELSE TextLess(Tail(a), Tail(b))

\* timedelta(days, seconds, microseconds), normalised as Python keeps it:
\* 0 <= seconds < 86400 and 0 <= microseconds < 1000000.
timedelta(d, sec, us) ==
    LET s2 == sec + (us \div 1000000)
    IN [days |-> d + (s2 \div (24 * 60 * 60)),
        seconds |-> s2 % (24 * 60 * 60),
        microseconds |-> us % 1000000]

\* timedelta + timedelta
TimedeltaSum(a, b) ==
    timedelta(a.days + b.days, a.seconds + b.seconds,
              a.microseconds + b.microseconds)

\* datetime + timedelta(days=n)
PlusDays(dt, n) == [dt EXCEPT !.day = dt.day + n]

\* A variant of time_difference that subtracts the other way round: C13
\* must tell it from util.time_difference.
time_difference_reversed(start, stop) ==
    timedelta(start.day - stop.day, start.tod - stop.tod, start.us - stop.us)

\* util.time_difference: stop - start
time_difference(start, stop) ==
    timedelta(stop.day - start.day, stop.tod - start.tod, stop.us - start.us)

\* ---------------------------------------------------------------- the clock

\* The seconds of the day the clock is read at: midnight, noon and the last
\* second of the day.
ClockTods ==
    {TimeOfDay(0, 0, 0), TimeOfDay(12, 0, 0), TimeOfDay(23, 59, 59)}

\* The sub-second part of a reading of datetime.now().
Micros == {0, 999999}

ClockPoints == [day : 0..MaxDay, tod : ClockTods]

ClockLeq(a, b) == a.day < b.day \/ (a.day = b.day /\ a.tod <= b.tod)

\* A variant of now that rounds to the nearest second: C16 must tell it
\* from util.now.
now_rounded(reading) ==
    LET up == IF reading.us >= 500000 THEN 1 ELSE 0
    IN [day |-> reading.day + ((reading.tod + up) \div (24 * 60 * 60)),
        tod |-> (reading.tod + up) % (24 * 60 * 60),
        us |-> 0]

\* util.now(): datetime.now() less its microseconds.
now(reading) ==
    [day |-> reading.day, tod |-> reading.tod, us |-> reading.us - reading.us]

\* ------------------------------------------------------------ the database

\* What SQLite does with one INSERT and its commit: both succeed, or
\* cursor.execute raises sqlite3.OperationalError, or connection.commit does.
Writes == {"ok", "execute", "commit"}

NoRow == [timestamp |-> <<>>, working |-> -1]

\* A variant of Rollback that rolls nothing back: C7 must tell it from the
\* rollback of log_event.
RollbackNothing(conn) == conn

\* connection.rollback(): the uncommitted rows are dropped.
Rollback(conn) == [conn EXCEPT !.pending = <<>>]

\* A variant of Commit that keeps only the rows of the transaction: C21
\* must tell it from connection.commit().
CommitReplacing(conn) ==
    [conn EXCEPT !.rows = conn.pending, !.pending = <<>>]

\* connection.commit(): the uncommitted rows become part of the table.
Commit(conn) ==
    [conn EXCEPT !.rows = conn.rows \o conn.pending, !.pending = <<>>]

\* cursor.execute("INSERT INTO event (timestamp, working) VALUES (?, ?)")
Execute(conn, text, code) ==
    [conn EXCEPT !.pending = Append(@, [timestamp |-> text, working |-> code])]

\* The rows a SELECT on the connection sees.
Visible(conn) == conn.rows \o conn.pending

\* try: execute; commit / except OperationalError: rollback; return False
\* with w what SQLite does.
Insert(conn, text, code, w) ==
    IF w = "execute" THEN [conn |-> Rollback(conn), ok |-> FALSE]
    ELSE IF w = "commit"
         THEN [conn |-> Rollback(Execute(conn, text, code)), ok |-> FALSE]
         ELSE [conn |-> Commit(Execute(conn, text, code)), ok |-> TRUE]

\* The outcomes of the insertion when SQLite may do any of W.
Inserts(conn, text, code, W) == {Insert(conn, text, code, w) : w \in W}

\* ORDER BY timestamp: SQLite's sorter keeps rows with equal keys in the
\* order it read them (rowid order).
RECURSIVE OrderBy(_)
OrderBy(rs) ==
    IF rs = <<>> THEN <<>>
    ELSE LET sorted == OrderBy(SubSeq(rs, 1, Len(rs) - 1))
             r == rs[Len(rs)]
             k == Cardinality({i \in 1..Len(sorted) :
                                ~TextLess(r.timestamp, sorted[i].timestamp)})
         IN SubSeq(sorted, 1, k) \o <<r>> \o SubSeq(sorted, k + 1, Len(sorted))

\* ORDER BY timestamp DESC: the same sorter with the comparison reversed.
RECURSIVE OrderByDesc(_)
OrderByDesc(rs) ==
    IF rs = <<>> THEN <<>>
    ELSE LET sorted == OrderByDesc(SubSeq(rs, 1, Len(rs) - 1))
             r == rs[Len(rs)]
             k == Cardinality({i \in 1..Len(sorted) :
                                ~TextLess(sorted[i].timestamp, r.timestamp)})
         IN SubSeq(sorted, 1, k) \o <<r>> \o SubSeq(sorted, k + 1, Len(sorted))

\* SELECT timestamp, working FROM event ORDER BY timestamp DESC LIMIT 1
\* and fetchone(): NoRow stands for None.
latest_event(conn) ==
    LET sorted == OrderByDesc(Visible(conn))
    IN IF sorted = <<>> THEN NoRow ELSE sorted[1]

\* A variant of _ensure_time_pairs that inserts the start of the current
\* date before the stop of the last date: C18 must tell it from
\* _ensure_time_pairs.
ensure_time_pairs_start_first(conn, t, W) ==
    LET row == latest_event(conn)
    IN IF row = NoRow \/ row.working = 0 THEN {[conn |-> conn, ok |-> TRUE]}
       ELSE
       LET last_date == fromisoformat(row.timestamp).day
           current_date == t.day
       IN IF current_date = last_date THEN {[conn |-> conn, ok |-> TRUE]}
          ELSE
          LET end_day_timestamp ==
                  isoformat(datetime(DateFields(last_date),
                                     END_HOUR, END_MINUTE, END_SECOND))
              start_day_timestamp ==
                  isoformat(datetime(DateFields(current_date),
                                     START_HOUR, START_MINUTE, START_SECOND))
              AfterStart(start) ==
                  IF ~start.ok THEN {[conn |-> start.conn, ok |-> FALSE]}
                  ELSE Inserts(start.conn, end_day_timestamp, 0, W)
          IN IF current_date - last_date > 1
             THEN Inserts(conn, end_day_timestamp, 0, W)
             ELSE UNION {AfterStart(start) :
                           start \in Inserts(conn, start_day_timestamp, 1, W)}

\* A variant of _ensure_time_pairs that goes on to the start when the stop
\* could not be inserted: C19 must tell it from _ensure_time_pairs.
ensure_time_pairs_goes_on(conn, t, W) ==
    LET row == latest_event(conn)
    IN IF row = NoRow \/ row.working = 0 THEN {[conn |-> conn, ok |-> TRUE]}
       ELSE
       LET last_date == fromisoformat(row.timestamp).day
           current_date == t.day
       IN IF current_date = last_date THEN {[conn |-> conn, ok |-> TRUE]}
          ELSE
          LET end_day_timestamp ==
                  isoformat(datetime(DateFields(last_date),
                                     END_HOUR, END_MINUTE, END_SECOND))
              start_day_timestamp ==
                  isoformat(datetime(DateFields(current_date),
                                     START_HOUR, START_MINUTE, START_SECOND))
              AfterStop(stop) ==
                  IF current_date - last_date > 1
                  THEN {[conn |-> stop.conn, ok |-> stop.ok]}
                  ELSE {[conn |-> start.conn, ok |-> stop.ok /\ start.ok] :
                           start \in Inserts(stop.conn, start_day_timestamp, 1, W)}
          IN UNION {AfterStop(stop) :
                       stop \in Inserts(conn, end_day_timestamp, 0, W)}

\* Database._ensure_time_pairs: the outcomes [conn, ok], with t the value of
\* util.now() and W what SQLite may do with each INSERT.
ensure_time_pairs(conn, t, W) ==
    LET row == latest_event(conn)
    IN IF row = NoRow \/ row.working = 0 THEN {[conn |-> conn, ok |-> TRUE]}
       ELSE
       LET last_date == fromisoformat(row.timestamp).day
           current_date == t.day
       IN IF current_date = last_date THEN {[conn |-> conn, ok |-> TRUE]}
          ELSE
          LET end_day_timestamp ==
                  isoformat(datetime(DateFields(last_date),
                                     END_HOUR, END_MINUTE, END_SECOND))
              start_day_timestamp ==
                  isoformat(datetime(DateFields(current_date),
                                     START_HOUR, START_MINUTE, START_SECOND))
              AfterStop(stop) ==
                  IF ~stop.ok THEN {[conn |-> stop.conn, ok |-> FALSE]}
                  ELSE IF current_date - last_date > 1
                       THEN {[conn |-> stop.conn, ok |-> TRUE]}
                       ELSE Inserts(stop.conn, start_day_timestamp, 1, W)
          IN UNION {AfterStop(stop) :
                       stop \in Inserts(conn, end_day_timestamp, 0, W)}

\* Database.get_daily_events
get_daily_events(conn, dt) ==
    LET matching == SelectSeq(Visible(conn),
                              LAMBDA r : Like(r.timestamp, DatePattern(dt)))
        rs == OrderBy(matching)
    IN [i \in 1..Len(rs) |->
           [timestamp |-> fromisoformat(rs[i].timestamp),
            working |-> IF rs[i].working = 1 THEN TRUE ELSE FALSE]]

\* Database.log_event: the outcomes [conn, ok].
log_event(conn, dt, working, W) ==
    Inserts(conn, isoformat(dt), IF working THEN 1 ELSE 0, W)

\* A variant of close that leaves the connection open: C9 must tell it from
\* the close every path of start and stop ends with.
close_nothing(conn) == Rollback(conn)

\* Database.close: connection.close(); what was not committed is lost.
close(conn) == [Rollback(conn) EXCEPT !.open = FALSE]

\* sqlite3.connect(file_name): a connection of its own on the stored table.
sqlite3_connect(table) == [rows |-> table, pending |-> <<>>, open |-> TRUE]

\* Database.connect, which WorkTimer calls before it reads and which
\* database.py does not define: as the design describes it, each operation
\* opens the store, so a closed connection is opened again on the same
\* table, and no reconciliation runs.
connect(conn) == IF conn.open THEN conn ELSE sqlite3_connect(conn.rows)

\* ------------------------------------------------------------ the service

ALREADY_ON == "You are already on the clock."
NOW_ON == "You are now on the clock."
ALREADY_OFF == "You are already off the clock."
NOW_OFF == "You are no longer on the clock."
ERROR == "ERROR: Failed to log event"
\* sqlite3.ProgrammingError: Cannot operate on a closed database.
RAISED == "ProgrammingError"

\* A variant of log_work_start whose early return leaves the connection
\* open: C20 must tell it from log_work_start.
log_work_start_early_return_open(conn, t, W) ==
    LET c0 == connect(conn)
        events == get_daily_events(c0, t)
    IN IF ~c0.open THEN {[conn |-> c0, ret |-> RAISED]}
       ELSE IF Len(events) > 0 /\ events[Len(events)].working
       THEN {[conn |-> c0, ret |-> ALREADY_ON]}
       ELSE {[conn |-> close(r.conn), ret |-> IF r.ok THEN NOW_ON ELSE ERROR] :
                r \in log_event(c0, t, TRUE, W)}

\* A variant of log_work_start that reads the clock again, a second later,
\* for the event it logs: C17 must tell it from log_work_start.
log_work_start_second_reading(conn, t, W) ==
    LET c0 == connect(conn)
        events == get_daily_events(c0, t)
        later == [t EXCEPT !.tod = IF t.tod < TimeOfDay(23, 59, 59)
                                   THEN t.tod + 1 ELSE t.tod]
    IN IF ~c0.open THEN {[conn |-> c0, ret |-> RAISED]}
       ELSE IF Len(events) > 0 /\ events[Len(events)].working
       THEN {[conn |-> close(c0), ret |-> ALREADY_ON]}
       ELSE {[conn |-> close(r.conn), ret |-> IF r.ok THEN NOW_ON ELSE ERROR] :
                r \in log_event(c0, later, TRUE, W)}

\* A variant of log_work_start that takes the timer to be on only when the
\* date has more than one event: C2 must tell it from log_work_start.
log_work_start_second_event(conn, t, W) ==
    LET c0 == connect(conn)
        events == get_daily_events(c0, t)
    IN IF ~c0.open THEN {[conn |-> c0, ret |-> RAISED]}
       ELSE IF Len(events) > 1 /\ events[Len(events)].working
       THEN {[conn |-> close(c0), ret |-> ALREADY_ON]}
       ELSE {[conn |-> close(r.conn), ret |-> IF r.ok THEN NOW_ON ELSE ERROR] :
                r \in log_event(c0, t, TRUE, W)}

\* WorkTimer.log_work_start: the outcomes [conn, ret], with t the value of
\* util.now().
log_work_start(conn, t, W) ==
    LET c0 == connect(conn)
        events == get_daily_events(c0, t)
    IN IF ~c0.open THEN {[conn |-> c0, ret |-> RAISED]}
       ELSE IF Len(events) > 0 /\ events[Len(events)].working
       THEN {[conn |-> close(c0), ret |-> ALREADY_ON]}
       ELSE {[conn |-> close(r.conn), ret |-> IF r.ok THEN NOW_ON ELSE ERROR] :
                r \in log_event(c0, t, TRUE, W)}

\* A variant of log_work_end that reports success whatever log_event
\* returned: C8 must tell it from log_work_end.
log_work_end_unchecked(conn, t, W) ==
    LET c0 == connect(conn)
        events == get_daily_events(c0, t)
    IN IF ~c0.open THEN {[conn |-> c0, ret |-> RAISED]}
       ELSE IF Len(events) = 0 \/ ~events[Len(events)].working
       THEN {[conn |-> close(c0), ret |-> ALREADY_OFF]}
       ELSE {[conn |-> close(r.conn), ret |-> NOW_OFF] :
                r \in log_event(c0, t, FALSE, W)}

\* WorkTimer.log_work_end: the outcomes [conn, ret].
log_work_end(conn, t, W) ==
    LET c0 == connect(conn)
        events == get_daily_events(c0, t)
    IN IF ~c0.open THEN {[conn |-> c0, ret |-> RAISED]}
       ELSE IF Len(events) = 0 \/ ~events[Len(events)].working
       THEN {[conn |-> close(c0), ret |-> ALREADY_OFF]}
       ELSE {[conn |-> close(r.conn), ret |-> IF r.ok THEN NOW_OFF ELSE ERROR] :
                r \in log_event(c0, t, FALSE, W)}

\* total_time += duration, over the blocks.
RECURSIVE SumDurations(_)
SumDurations(blocks) ==
    IF blocks = <<>> THEN timedelta(0, 0, 0)
    ELSE TimedeltaSum(SumDurations(SubSeq(blocks, 1, Len(blocks) - 1)),
                      blocks[Len(blocks)][3])

\* A variant of calculate_daily_blocks that works on the caller's list and
\* not on a copy of it: C12 must tell it from calculate_daily_blocks.
calculate_daily_blocks_in_place(events, t) ==
    LET paired == IF Len(events) % 2 # 0
                  THEN Append(events, [timestamp |-> t, working |-> FALSE])
                  ELSE events
        results == [k \in 1..(Len(paired) \div 2) |->
                      <<paired[2 * k - 1].timestamp, paired[2 * k].timestamp,
                        time_difference(paired[2 * k - 1].timestamp,
                                        paired[2 * k].timestamp)>>]
    IN [total |-> SumDurations(results), blocks |-> results, events |-> paired]

\* WorkTimer.calculate_daily_blocks, with t the value of util.now(): the
\* total, the blocks <<start, stop, duration>>, and the caller's list as
\* the call leaves it (the function works on a deepcopy).
calculate_daily_blocks(events, t) ==
    LET copy == events
        paired == IF Len(copy) % 2 # 0
                  THEN Append(copy, [timestamp |-> t, working |-> FALSE])
                  ELSE copy
        results == [k \in 1..(Len(paired) \div 2) |->
                      <<paired[2 * k - 1].timestamp, paired[2 * k].timestamp,
                        time_difference(paired[2 * k - 1].timestamp,
                                        paired[2 * k].timestamp)>>]
    IN [total |-> SumDurations(results), blocks |-> results, events |-> events]

\* Database.get_weekly_events
get_weekly_events(conn, dt) ==
    LET start_of_week == PlusDays(dt, -weekday(dt.day))
    IN [i \in 1..DAYS_PER_WEEK |->
           get_daily_events(conn, PlusDays(start_of_week, i - 1))]

\* total_time += daily_total, over the days.
RECURSIVE SumTotals(_)
SumTotals(totals) ==
    IF totals = <<>> THEN timedelta(0, 0, 0)
    ELSE TimedeltaSum(SumTotals(SubSeq(totals, 1, Len(totals) - 1)),
                      totals[Len(totals)])

\* A variant of calculate_weekly_blocks whose grand total leaves out the
\* last day: C14 must tell it from calculate_weekly_blocks.
calculate_weekly_blocks_short(weekly_events, t) ==
    LET results == [i \in 1..Len(weekly_events) |->
                      calculate_daily_blocks(weekly_events[i], t).total]
    IN [total |-> SumTotals(SubSeq(results, 1, Len(results) - 1)),
        days |-> results]

\* WorkTimer.calculate_weekly_blocks, with t the value of util.now() in
\* calculate_daily_blocks.
calculate_weekly_blocks(weekly_events, t) ==
    LET results == [i \in 1..Len(weekly_events) |->
                      calculate_daily_blocks(weekly_events[i], t).total]
    IN [total |-> SumTotals(results), days |-> results]

\* The names of util.weekday_name, a text being the sequence of its
\* characters.
DayNames ==
    <<<<"M", "o", "n", "d", "a", "y">>,
      <<"T", "u", "e", "s", "d", "a", "y">>,
      <<"W", "e", "d", "n", "e", "s", "d", "a", "y">>,
      <<"T", "h", "u", "r", "s", "d", "a", "y">>,
      <<"F", "r", "i", "d", "a", "y">>,
      <<"S", "a", "t", "u", "r", "d", "a", "y">>,
      <<"S", "u", "n", "d", "a", "y">>>>

NotAvailable == <<"N", "/", "A">>

\* text[:n]
Prefix(text, n) == SubSeq(text, 1, IF Len(text) < n THEN Len(text) ELSE n)

\* A variant of weekday_name whose week begins on Sunday: C15 must tell it
\* from util.weekday_name.
weekday_name_from_sunday(day, abbreviate) ==
    LET days == <<DayNames[7]>> \o SubSeq(DayNames, 1, 6)
    IN IF ~(0 <= day /\ day < Len(days)) THEN NotAvailable
       ELSE IF ~abbreviate THEN days[day + 1] ELSE Prefix(days[day + 1], 3)

\* util.weekday_name
weekday_name(day, abbreviate) ==
    LET days == DayNames
    IN IF ~(0 <= day /\ day < Len(days)) THEN NotAvailable
       ELSE IF ~abbreviate THEN days[day + 1] ELSE Prefix(days[day + 1], 3)

\* WorkTimer.get_daily_time_worked: the report it returns (the date of the
\* header, the block lines, the total of the footer), with t the value of
\* util.now() in calculate_daily_blocks.
get_daily_time_worked(conn, dt, t) ==
    LET events == get_daily_events(connect(conn), dt)
        r == calculate_daily_blocks(events, t)
    IN [header |-> dt.day, lines |-> r.blocks, total |-> r.total]

\* WorkTimer.get_weekly_time_worked: the report it returns.
get_weekly_time_worked(conn, dt, t) ==
    LET events == get_weekly_events(connect(conn), dt)
        r == calculate_weekly_blocks(events, t)
    IN [header |-> dt.day,
        lines |-> [i \in 1..Len(r.days) |->
                     <<weekday_name(i - 1, TRUE), r.days[i]>>],
        total |-> r.total]

\* A variant of the reports' use of the connection that stores a stop for
\* a log with an odd number of events: C22 must tell it from the reports.
AfterReportStoring(conn) ==
    LET c == connect(conn)
    IN IF Len(c.rows) % 2 = 1
       THEN close(Commit(Execute(c, c.rows[Len(c.rows)].timestamp, 0)))
       ELSE close(c)

\* The connection a report leaves: both reports connect, read, and close
\* before they calculate.
AfterReport(conn) == close(connect(conn))

\* ------------------------------------------------------------- the system

VARIABLES
    clock,      \* the wall clock: [day, tod]
    rows,       \* the event table, in rowid order
    pending,    \* rows inserted on the connection and not yet committed
    open,       \* whether the connection is open
    pc,         \* "none": no Database yet; "ready": one was just created;
                \* "done": an operation has run on it
    op,         \* the operation that has just returned, "none" once time
                \* has moved on
    ret,        \* what it returned
    call        \* the latest start or stop call: [op, day, ret, added]

vars == <<clock, rows, pending, open, pc, op, ret, call>>

NoCall == [op |-> "none", day |-> -1, ret |-> "", added |-> 0]

\* What datetime.now() may read, and what util.now() may return.
Readings == {[day |-> clock.day, tod |-> clock.tod, us |-> us] : us \in Micros}
Now == {now(reading) : reading \in Readings}

Conn == [rows |-> rows, pending |-> pending, open |-> open]

Init ==
    /\ clock = [day |-> 0, tod |-> TimeOfDay(0, 0, 0)]
    /\ rows = <<>>
    /\ pending = <<>>
    /\ open = FALSE
    /\ pc = "none"
    /\ op = "none"
    /\ ret = ""
    /\ call = NoCall

\* Time passes.
Tick ==
    /\ \E c \in ClockPoints : ClockLeq(clock, c) /\ c # clock /\ clock' = c
    /\ op' = "none"
    /\ ret' = ""
    /\ UNCHANGED <<rows, pending, open, pc, call>>

\* Database.__init__ (create_worktimer): a new connection, and the
\* reconciliation.
NewDatabase(W) ==
    /\ Len(rows) + 2 <= MaxRows
    /\ \E t \in Now :
          \E r \in ensure_time_pairs(sqlite3_connect(rows), t, W) :
             /\ rows' = r.conn.rows
             /\ pending' = r.conn.pending
             /\ open' = r.conn.open
             /\ ret' = IF r.ok THEN "True" ELSE "False"
    /\ pc' = "ready"
    /\ op' = "init"
    /\ UNCHANGED <<clock, call>>

\* The start command's call of WorkTimer.log_work_start.
Start(W) ==
    /\ pc # "none"
    /\ Len(rows) + 1 <= MaxRows
    /\ \E t \in Now :
          \E r \in log_work_start(Conn, t, W) :
             /\ rows' = r.conn.rows
             /\ pending' = r.conn.pending
             /\ open' = r.conn.open
             /\ ret' = r.ret
             /\ call' = [op |-> "start", day |-> t.day, ret |-> r.ret,
                         added |-> Len(r.conn.rows) - Len(rows)]
    /\ pc' = "done"
    /\ op' = "start"
    /\ UNCHANGED clock

\* The stop command's call of WorkTimer.log_work_end, and the wt.db.close()
\* that follows it.
Stop(W) ==
    /\ pc # "none"
    /\ Len(rows) + 1 <= MaxRows
    /\ \E t \in Now :
          \E r \in log_work_end(Conn, t, W) :
             /\ rows' = close(r.conn).rows
             /\ pending' = close(r.conn).pending
             /\ open' = close(r.conn).open
             /\ ret' = r.ret
             /\ call' = [op |-> "stop", day |-> t.day, ret |-> r.ret,
                         added |-> Len(r.conn.rows) - Len(rows)]
    /\ pc' = "done"
    /\ op' = "stop"
    /\ UNCHANGED clock

\* The dates a report is asked for: those the clock passes through, and the
\* one after them.
ReportDates ==
    {[day |-> d, tod |-> TimeOfDay(0, 0, 0), us |-> 0] : d \in 0..(MaxDay + 1)}

\* The day command's call of WorkTimer.get_daily_time_worked, which returns
\* get_daily_time_worked(Conn, dt, t) for the date dt it is asked for, and
\* the wt.db.close() that follows it.
Day ==
    /\ pc # "none"
    /\ rows' = close(AfterReport(Conn)).rows
    /\ pending' = close(AfterReport(Conn)).pending
    /\ open' = close(AfterReport(Conn)).open
    /\ pc' = "done"
    /\ op' = "day"
    /\ ret' = ""
    /\ UNCHANGED <<clock, call>>

\* The week command's call of WorkTimer.get_weekly_time_worked, which
\* returns get_weekly_time_worked(Conn, dt, t).
Week ==
    /\ pc # "none"
    /\ rows' = AfterReport(Conn).rows
    /\ pending' = AfterReport(Conn).pending
    /\ open' = AfterReport(Conn).open
    /\ pc' = "done"
    /\ op' = "week"
    /\ ret' = ""
    /\ UNCHANGED <<clock, call>>

Next ==
    \/ Tick
    \/ NewDatabase(Writes)
    \/ Start(Writes)
    \/ Stop(Writes)
    \/ Day
    \/ Week

Spec == Init /\ [][Next]_vars

\* The commands as the command line runs them, with no write failing: every
\* start or stop runs on a Database created for it (create_worktimer), within
\* the second of its creation; time passes between the commands.
NoFailure == {"ok"}

NextCli ==
    \/ (pc # "ready" /\ Tick)
    \/ NewDatabase(NoFailure)
    \/ (pc = "ready" /\ Start(NoFailure))
    \/ (pc = "ready" /\ Stop(NoFailure))
    \/ (pc = "ready" /\ Day)
    \/ (pc = "ready" /\ Week)

SpecCli == Init /\ [][NextCli]_vars

\* ------------------------------------------------------------- the claims

\* The steps of the operations.
StartStep == op' = "start" /\ clock' = clock
StopStep == op' = "stop" /\ clock' = clock
InitStep == op' = "init" /\ clock' = clock

\* The working flags 1, 0, 1, 0, ... in order.
Alternates(rs) ==
    \A i \in 1..Len(rs) : rs[i].working = (IF i % 2 = 1 THEN 1 ELSE 0)

\* The events ordered by timestamp (those of one timestamp in the order they
\* were logged), and the most recent of them.
Ordered == OrderBy(rows)
MostRecent == IF rows = <<>> THEN NoRow ELSE Ordered[Len(Ordered)]
DateOfRow(r) == fromisoformat(r.timestamp).day

\* C1: after any sequence of store initializations, starts and stops with
\* no write failing and the clock advancing between them, the stored events
\* ordered by timestamp alternate start, stop, start, ..., beginning with a
\* start.
C1_Alternation == Alternates(Ordered)

C3_StopTwice ==
    [][StopStep
         => /\ (call.op = "stop" /\ call.ret # ERROR)
                => (ret' = ALREADY_OFF /\ rows' = rows)
            /\ (\A t \in Now : get_daily_events(Conn, t) = <<>>)
                => (ret' = ALREADY_OFF /\ rows' = rows)]_vars

\* The events reconciliation adds: the stop that ends a date and the start
\* that begins one.
StopAtEndOf(d) == [timestamp |-> DateFields(d) \o <<23, 59, 59>>, working |-> 0]
StartAtMidnightOf(d) == [timestamp |-> DateFields(d) \o <<0, 0, 0>>, working |-> 1]
DanglingStart == MostRecent.working = 1

\* C4: when the most recent event of the log is a start dated one day
\* before the current date, a failure-free reconciliation appends exactly a
\* stop at 23:59:59 of that date and a start at 00:00:00 of the current
\* date; and it appends a start only in that case.
C4_GapOfOneDay ==
    [][InitStep
         => /\ (DanglingStart /\ DateOfRow(MostRecent) = clock.day - 1)
                => rows' = rows \o <<StopAtEndOf(clock.day - 1),
                                     StartAtMidnightOf(clock.day)>>
            /\ (\E i \in (Len(rows) + 1)..Len(rows') : rows'[i].working = 1)
                => (DanglingStart /\ DateOfRow(MostRecent) = clock.day - 1)]_vars

\* C5: when the most recent event of the log is a start dated more than one
\* day before the current date, a failure-free reconciliation appends only
\* a stop at 23:59:59 of that date.
C5_GapOfMoreDays ==
    [][(InitStep /\ DanglingStart /\ DateOfRow(MostRecent) < clock.day - 1)
         => rows' = Append(rows, StopAtEndOf(DateOfRow(MostRecent)))]_vars

\* C6: reconciliation leaves the log unchanged when the log is empty, when
\* its most recent event is a stop, and when its most recent event is a
\* start dated on the current date.
C6_NothingToRepair ==
    [][(InitStep /\ (\/ rows = <<>>
                     \/ MostRecent.working = 0
                     \/ (DanglingStart /\ DateOfRow(MostRecent) = clock.day)))
         => rows' = rows]_vars

C8_FailedAppend ==
    /\ [][((StartStep \/ StopStep) /\ ret' = ERROR)
            => (rows' = rows /\ pending' = <<>>)]_vars
    /\ [](pc # "none" =>
            \A t \in Now, w \in Writes \ NoFailure :
               /\ \A r \in log_work_start(Conn, t, {w}) :
                     r.ret \in {ERROR, ALREADY_ON} /\ r.conn.rows = rows
               /\ \A r \in log_work_end(Conn, t, {w}) :
                     r.ret \in {ERROR, ALREADY_OFF} /\ r.conn.rows = rows)

\* C8's case: a start whose append failed has returned the error message.
C8_Witness == op = "start" /\ ret = ERROR /\ call.added = 0

StoredOn(d) == SelectSeq(rows, LAMBDA r : DateOfRow(r) = d)

Occurrences(seq, e) == Cardinality({i \in 1..Len(seq) : seq[i] = e})

Earlier(a, b) ==
    \/ a.day < b.day
    \/ a.day = b.day /\ a.tod < b.tod
    \/ a.day = b.day /\ a.tod = b.tod /\ a.us < b.us

\* The stored events of a date as events: the timestamp a date-time, the
\* flag a boolean.
EventsStoredOn(d) ==
    LET stored == StoredOn(d)
    IN [i \in 1..Len(stored) |->
          [timestamp |-> fromisoformat(stored[i].timestamp),
           working |-> stored[i].working = 1]]

\* C10: for every date and every stored log, get_daily_events returns the
\* stored events of that date, each as often as the log holds it and none
\* of another date, in ascending order of timestamp; it returns the empty
\* sequence when the date has none.
C10_EventsOn ==
    \A dt \in ReportDates :
       LET got == get_daily_events(Conn, dt)
           stored == EventsStoredOn(dt.day)
       IN /\ Len(got) = Len(stored)
          /\ \A i \in 1..Len(stored) :
                Occurrences(got, stored[i]) = Occurrences(stored, stored[i])
          /\ \A i \in 1..Len(got) : got[i].timestamp.day = dt.day
          /\ \A i, j \in 1..Len(got) :
                i < j => ~Earlier(got[j].timestamp, got[i].timestamp)
          /\ (stored = <<>>) => (got = <<>>)

\* C10's case: the log holds events of two dates, two or more of them of
\* one date, and a daily report has read it.
C10_Witness ==
    /\ op = "day"
    /\ \E d \in 0..MaxDay :
          /\ Len(StoredOn(d)) >= 2
          /\ Len(rows) > Len(StoredOn(d))

\* The Monday of the week of a date: 2024-01-01, the date 2, is a Monday.
MondayOf(d) == CHOOSE m \in (d - 6)..d : (m - 2) % 7 = 0

DateTimeOn(d) == [day |-> d, tod |-> TimeOfDay(0, 0, 0), us |-> 0]

\* C11: for every date d, get_weekly_events returns seven sequences, entry
\* i (0..6) being get_daily_events of the Monday of d's week plus i days;
\* the entry at weekday(d) is that of d itself, and every date of the same
\* Monday-to-Sunday week gives the same result.
C11_EventsInWeek ==
    LET weeks == [dt \in ReportDates |-> get_weekly_events(Conn, dt)]
    IN \A dt \in ReportDates :
          LET week == weeks[dt]
              monday == MondayOf(dt.day)
          IN /\ Len(week) = 7
             /\ \A i \in 0..6 :
                   week[i + 1] = get_daily_events(Conn, DateTimeOn(monday + i))
             /\ weekday(dt.day) = dt.day - monday
             /\ week[weekday(dt.day) + 1] = get_daily_events(Conn, dt)
             /\ \A other \in ReportDates :
                   MondayOf(other.day) = monday => weeks[other] = week

\* C11's case: a weekly report has read a log that holds events on the
\* Sunday that ends one week and on the Monday that begins the next.
C11_Witness ==
    /\ op = "week"
    /\ StoredOn(1) # <<>>
    /\ StoredOn(2) # <<>>

ReportStep == op' \in {"day", "week"}

\* The seconds a timedelta of whole seconds stands for.
SecondsOf(delta) == delta.days * (24 * 60 * 60) + delta.seconds

\* The seconds from one date-time of whole seconds to another.
SecondsBetween(a, b) == (b.day - a.day) * (24 * 60 * 60) + (b.tod - a.tod)

\* C12: given an odd number of events, calculate_daily_blocks ends with the
\* block (timestamp of the last event, now, now minus that timestamp); the
\* caller's list is afterwards what it was, and a report leaves the stored
\* log as it was, so the stop at 'now' is never stored.
C12_OddEvents ==
    /\ [](\A dt \in ReportDates, t \in Now :
            LET events == get_daily_events(Conn, dt)
                r == calculate_daily_blocks(events, t)
                last == r.blocks[Len(r.blocks)]
            IN /\ r.events = events
               /\ Len(events) % 2 = 1
                    => /\ Len(r.blocks) = (Len(events) + 1) \div 2
                       /\ last[1] = events[Len(events)].timestamp
                       /\ last[2] = t
                       /\ last[3].microseconds = 0
                       /\ last[3].seconds \in 0..(24 * 60 * 60 - 1)
                       /\ SecondsOf(last[3]) = SecondsBetween(last[1], t))
    /\ [][ReportStep => (rows' = rows /\ pending' = <<>>)]_vars

\* C12's case: a daily report has run on a date that has an odd number of
\* events.
C12_Witness ==
    /\ op = "day"
    /\ Len(StoredOn(clock.day)) % 2 = 1

\* The whole stored log as events, in the order of get_daily_events.
AllEvents ==
    [i \in 1..Len(Ordered) |->
       [timestamp |-> fromisoformat(Ordered[i].timestamp),
        working |-> Ordered[i].working = 1]]

\* Start at 09:00, stop at 12:00, start at 13:00, stop at 17:00.
At(h) == [day |-> 0, tod |-> TimeOfDay(h, 0, 0), us |-> 0]
ExampleDay ==
    <<[timestamp |-> At(9), working |-> TRUE],
      [timestamp |-> At(12), working |-> FALSE],
      [timestamp |-> At(13), working |-> TRUE],
      [timestamp |-> At(17), working |-> FALSE]>>
Hours(n) == [days |-> 0, seconds |-> n * 60 * 60, microseconds |-> 0]

RECURSIVE SecondsOfBlocks(_)
SecondsOfBlocks(blocks) ==
    IF blocks = <<>> THEN 0
    ELSE SecondsOfBlocks(SubSeq(blocks, 1, Len(blocks) - 1))
           + SecondsBetween(blocks[Len(blocks)][1], blocks[Len(blocks)][2])

\* C13: for a sequence of n events calculate_daily_blocks returns ceil(n/2)
\* blocks, block k being (timestamp of event 2k, timestamp of event 2k+1,
\* their difference) counting from 0, in the order of the input, with the
\* stop at 'now' as the last event when n is odd; the total is the sum of
\* the durations, zero with no blocks for the empty sequence; and the day
\* start 09:00, stop 12:00, start 13:00, stop 17:00 gives 7 hours in blocks
\* of 3 and 4 hours.
C13_Blocks ==
    \A t \in Now :
       /\ \A events \in {get_daily_events(Conn, dt) : dt \in ReportDates}
                          \cup {AllEvents, <<>>} :
             LET r == calculate_daily_blocks(events, t)
                 n == Len(events)
                 stamp(i) == IF i <= n THEN events[i].timestamp ELSE t
             IN /\ Len(r.blocks) = (n + 1) \div 2
                /\ \A k \in 1..Len(r.blocks) :
                      /\ r.blocks[k][1] = stamp(2 * k - 1)
                      /\ r.blocks[k][2] = stamp(2 * k)
                      /\ r.blocks[k][3].microseconds = 0
                      /\ r.blocks[k][3].seconds \in 0..(24 * 60 * 60 - 1)
                      /\ SecondsOf(r.blocks[k][3])
                           = SecondsBetween(stamp(2 * k - 1), stamp(2 * k))
                /\ r.total.microseconds = 0
                /\ r.total.seconds \in 0..(24 * 60 * 60 - 1)
                /\ SecondsOf(r.total) = SecondsOfBlocks(r.blocks)
                /\ (n = 0) => (r.blocks = <<>> /\ r.total = Hours(0))
       /\ calculate_daily_blocks(ExampleDay, t).total = Hours(7)
       /\ calculate_daily_blocks(ExampleDay, t).blocks
            = <<<<At(9), At(12), Hours(3)>>, <<At(13), At(17), Hours(4)>>>>

\* C13's case: a daily report has run on a log in which one date has four
\* events or more.
C13_Witness ==
    /\ op = "day"
    /\ \E d \in 0..MaxDay : Len(StoredOn(d)) >= 4

\* Seven days of events, as get_weekly_events returns them for the weeks of
\* the dates asked for, and seven empty days.
EmptyWeek == [i \in 1..DAYS_PER_WEEK |-> <<>>]

RECURSIVE SecondsOfTotals(_)
SecondsOfTotals(totals) ==
    IF totals = <<>> THEN 0
    ELSE SecondsOfTotals(SubSeq(totals, 1, Len(totals) - 1))
           + SecondsOf(totals[Len(totals)])

\* C14: calculate_weekly_blocks over seven lists of events returns seven
\* totals, the i-th being the total calculate_daily_blocks returns for the
\* i-th list alone, and a grand total that is their sum; for seven empty
\* lists it returns zero and seven zeros.
C14_WeeklyBlocks ==
    \A t \in Now :
       /\ \A week \in {get_weekly_events(Conn, dt) : dt \in ReportDates} :
             LET r == calculate_weekly_blocks(week, t)
             IN /\ Len(r.days) = 7
                /\ \A i \in 1..7 :
                      r.days[i] = calculate_daily_blocks(week[i], t).total
                /\ r.total.microseconds = 0
                /\ r.total.seconds \in 0..(24 * 60 * 60 - 1)
                /\ SecondsOf(r.total) = SecondsOfTotals(r.days)
       /\ calculate_weekly_blocks(EmptyWeek, t)
            = [total |-> Hours(0), days |-> [i \in 1..7 |-> Hours(0)]]

\* C14's case: a weekly report has run on a week in which two days have
\* events, one of them an odd number.
C14_Witness ==
    /\ op = "week"
    /\ StoredOn(0) # <<>>
    /\ Len(StoredOn(1)) % 2 = 1

\* The weekdays weekday_name is asked for: those of a week and integers on
\* both sides of them.
WeekdayInputs == (0 - 3)..10

\* C15: weekday_name returns the English name of the day, 0 being Monday
\* and 6 Sunday, and with abbreviate set exactly the first three characters
\* of that name; for every integer outside 0..6 it returns "N/A" in both
\* forms. The weekly report names its seven lines Mon to Sun.
C15_WeekdayName ==
    /\ weekday_name(0, FALSE) = <<"M", "o", "n", "d", "a", "y">>
    /\ weekday_name(1, FALSE) = <<"T", "u", "e", "s", "d", "a", "y">>
    /\ weekday_name(2, FALSE) = <<"W", "e", "d", "n", "e", "s", "d", "a", "y">>
    /\ weekday_name(3, FALSE) = <<"T", "h", "u", "r", "s", "d", "a", "y">>
    /\ weekday_name(4, FALSE) = <<"F", "r", "i", "d", "a", "y">>
    /\ weekday_name(5, FALSE) = <<"S", "a", "t", "u", "r", "d", "a", "y">>
    /\ weekday_name(6, FALSE) = <<"S", "u", "n", "d", "a", "y">>
    /\ \A w \in WeekdayInputs :
          IF w \in 0..6
          THEN /\ Len(weekday_name(w, TRUE)) = 3
               /\ \A i \in 1..3 :
                     weekday_name(w, TRUE)[i] = weekday_name(w, FALSE)[i]
          ELSE /\ weekday_name(w, FALSE) = <<"N", "/", "A">>
               /\ weekday_name(w, TRUE) = <<"N", "/", "A">>
    /\ op = "week" =>
          \A t \in Now :
             LET lines == get_weekly_time_worked(Conn, DateTimeOn(clock.day), t).lines
             IN <<lines[1][1], lines[7][1]>>
                  = <<<<"M", "o", "n">>, <<"S", "u", "n">>>>

\* C15's case: a weekly report, which names the seven days of its lines,
\* has run on a log that holds events.
C15_Witness == op = "week" /\ rows # <<>> /\ clock.day = MaxDay

\* C16: util.now() returns a date-time whose microsecond is zero and whose
\* date, hour, minute and second are those of the clock reading, whatever
\* its microsecond (truncation, not rounding); so every stored event has a
\* timestamp of whole seconds, written without a fraction, and the event a
\* start or stop appends carries the second of the clock.
C16_NowTruncates ==
    /\ [](/\ \A reading \in Readings :
               /\ now(reading).us = 0
               /\ now(reading).day = reading.day
               /\ now(reading).tod = reading.tod
          /\ \A i \in 1..Len(rows) :
               /\ Len(rows[i].timestamp) = 6
               /\ fromisoformat(rows[i].timestamp).us = 0)
    /\ [][((StartStep \/ StopStep) /\ Len(rows') = Len(rows) + 1)
            => rows'[Len(rows')].timestamp
                 = DateFields(clock.day)
                     \o <<HourOf(clock.tod), MinuteOf(clock.tod), SecondOf(clock.tod)>>]_vars

\* C16's case: a start has appended an event in the last second of a day,
\* where rounding a late reading would give the next day.
C16_Witness ==
    /\ op = "start"
    /\ ret = NOW_ON
    /\ clock.tod = TimeOfDay(23, 59, 59)
    /\ rows[Len(rows)].timestamp = DateFields(clock.day) \o <<23, 59, 59>>

\* The last of the events stored on the clock's date, in timestamp order,
\* NoRow when the date has none.
TodayLast ==
    LET today == OrderBy(StoredOn(clock.day))
    IN IF today = <<>> THEN NoRow ELSE today[Len(today)]

\* The text of the clock's date and second.
ClockText ==
    DateFields(clock.day)
        \o <<HourOf(clock.tod), MinuteOf(clock.tod), SecondOf(clock.tod)>>

\* C17: a start command run when the clock's date has no event or its last
\* event is a stop appends exactly one event, flagged working, with the
\* clock's date and second as timestamp, leaves every other row as it was
\* and returns "now on the clock"; a stop command run when the last event of
\* the clock's date is a start does the same with a not-working event and
\* "no longer on the clock". The date whose events decide and the timestamp
\* written come from the one reading of the clock.
C17_AppendsOneEvent ==
    [][/\ (StartStep /\ TodayLast.working # 1)
            => /\ rows' = Append(rows, [timestamp |-> ClockText, working |-> 1])
               /\ pending' = <<>>
               /\ ret' = NOW_ON
               /\ call'.day = clock.day
       /\ (StopStep /\ TodayLast.working = 1)
            => /\ rows' = Append(rows, [timestamp |-> ClockText, working |-> 0])
               /\ pending' = <<>>
               /\ ret' = NOW_OFF
               /\ call'.day = clock.day]_vars

\* C17's case: a stop has appended the fourth event of its date, so a start
\* after a stop and a stop after a start have both run on that date.
C17_Witness ==
    /\ op = "stop"
    /\ ret = NOW_OFF
    /\ Len(StoredOn(clock.day)) >= 4
    /\ rows[Len(rows)] = [timestamp |-> ClockText, working |-> 0]

\* The rows a step appends, when it keeps the rows there were.
Appended == SubSeq(rows', Len(rows) + 1, Len(rows'))

\* The starts of the log that no event is later than.
DanglingStarts ==
    {i \in 1..Len(rows) :
        /\ rows[i].working = 1
        /\ \A j \in 1..Len(rows) :
              ~TextLess(rows[i].timestamp, rows[j].timestamp)}

\* C18: a store initialization keeps the rows there were and appends
\* nothing, or one stop at 23:59:59, or that stop followed by one start at
\* 00:00:00 of the current date, never more and never the start first or
\* alone; the stop bears the date, earlier than the current one, of a start
\* that no stored event is later than. And the rows change in no step but a
\* start, a stop or an initialization, each of which only appends.
C18_ReconciliationAppends ==
    [][/\ InitStep
            => /\ SubSeq(rows', 1, Len(rows)) = rows
               /\ Len(rows') <= Len(rows) + 2
               /\ \/ Appended = <<>>
                  \/ \E i \in DanglingStarts :
                        /\ DateOfRow(rows[i]) < clock.day
                        /\ \/ Appended = <<StopAtEndOf(DateOfRow(rows[i]))>>
                           \/ Appended = <<StopAtEndOf(DateOfRow(rows[i])),
                                           StartAtMidnightOf(clock.day)>>
       /\ rows' # rows
            => /\ op' \in {"init", "start", "stop"}
               /\ clock' = clock
               /\ SubSeq(rows', 1, Len(rows)) = rows
               /\ (op' # "init" => Len(rows') = Len(rows) + 1)]_vars

\* C18's case: an initialization has just appended both events.
C18_Witness ==
    /\ op = "init"
    /\ Len(rows) >= 3
    /\ rows[Len(rows) - 1] = StopAtEndOf(clock.day - 1)
    /\ rows[Len(rows)] = StartAtMidnightOf(clock.day)

\* C19: a failing INSERT of the reconciliation ends it with False and
\* without an exception, and the initialization completes with an open
\* connection and nothing uncommitted. Such an initialization leaves
\* the log as it was (the stop's INSERT failed, and no start is inserted)
\* or longer by the stop at 23:59:59 of the day before the current date
\* alone (the start's INSERT failed). On the Database it leaves,
\* start and stop raise nothing, return one of their messages and append
\* their event when no write fails, and the reports are those of the
\* stored log.
C19_FailedReconciliation ==
    /\ []((op = "init" /\ ret = "False") =>
            /\ pc = "ready" /\ open /\ pending = <<>>
            /\ \A t \in Now :
                 /\ \A r \in log_work_start(Conn, t, Writes) \cup
                               log_work_end(Conn, t, Writes) :
                       r.ret # RAISED /\ ~r.conn.open
                 /\ \A r \in log_work_start(Conn, t, NoFailure) :
                       /\ r.ret \in {ALREADY_ON, NOW_ON}
                       /\ r.ret = NOW_ON => Len(r.conn.rows) = Len(rows) + 1
                 /\ \A r \in log_work_end(Conn, t, NoFailure) :
                       /\ r.ret \in {ALREADY_OFF, NOW_OFF}
                       /\ r.ret = NOW_OFF => Len(r.conn.rows) = Len(rows) + 1
                 /\ get_daily_time_worked(Conn, DateTimeOn(clock.day), t).lines
                      = calculate_daily_blocks(
                          get_daily_events(sqlite3_connect(rows),
                                           DateTimeOn(clock.day)), t).blocks
                 /\ get_weekly_time_worked(Conn, DateTimeOn(clock.day), t).total
                      = calculate_weekly_blocks(
                          get_weekly_events(sqlite3_connect(rows),
                                            DateTimeOn(clock.day)), t).total
            /\ AfterReport(Conn).rows = rows)
    /\ [][(InitStep /\ ret' = "False")
            => /\ pc' = "ready" /\ open' /\ pending' = <<>>
               /\ SubSeq(rows', 1, Len(rows)) = rows
               /\ \/ Appended = <<>>
                  \/ /\ Appended = <<StopAtEndOf(clock.day - 1)>>
                     /\ \E i \in DanglingStarts :
                           DateOfRow(rows[i]) = clock.day - 1]_vars

\* C19's case: the start's INSERT has failed, and the log ends with the
\* start of the day before and the stop the reconciliation added to it.
C19_Witness ==
    /\ op = "init"
    /\ ret = "False"
    /\ Len(rows) >= 2
    /\ rows[Len(rows)] = StopAtEndOf(clock.day - 1)
    /\ rows[Len(rows) - 1].working = 1
    /\ rows[Len(rows) - 1].timestamp # rows[Len(rows)].timestamp

\* The commands that work on the store.
Commands == {"start", "stop", "day", "week"}

C21_AppendOnly ==
    [][/\ Len(rows') >= Len(rows)
       /\ \A i \in 1..Len(rows) :
             /\ rows'[i].timestamp = rows[i].timestamp
             /\ rows'[i].working = rows[i].working]_vars

\* C21's case: a stop whose write failed has finished on a log that holds
\* events of a reconciliation and of a start.
C21_Witness ==
    /\ op = "stop"
    /\ ret = ERROR
    /\ Len(rows) >= 3
    /\ \E i \in 1..Len(rows) : rows[i] = StartAtMidnightOf(clock.day)

\* The connection as a step leaves it.
ConnAfter == [rows |-> rows', pending |-> pending', open |-> open']

\* C22: on an initialized store, a daily or weekly report step leaves the
\* stored log exactly as it was, whatever the log holds and whatever date
\* is asked for, also when the date's events are odd in number and the
\* calculation closes them with a stop at the current time: that stop is in
\* no stored row, and the events every date yields after the report are
\* those it yielded before.
C22_ReportsStoreNothing ==
    [][(op' \in {"day", "week"} /\ pc # "none")
         => /\ rows' = rows
            /\ pending' = <<>>
            /\ \A dt \in ReportDates :
                  /\ get_daily_events(connect(ConnAfter), dt)
                       = get_daily_events(connect(Conn), dt)
                  /\ \A t \in Now :
                        Len(get_daily_events(connect(Conn), dt)) % 2 = 1
                          => Len(StoredOn(dt.day))'
                               = Len(calculate_daily_blocks(
                                       get_daily_events(connect(Conn), dt),
                                       t).blocks) * 2 - 1]_vars

\* C22's case: a weekly report has run on a log whose current date has an
\* odd number of events and which holds events of other dates too.
C22_Witness ==
    /\ op = "week"
    /\ Len(StoredOn(clock.day)) % 2 = 1
    /\ Len(rows) > Len(StoredOn(clock.day))

\* C23: a failure-free reconciliation that follows a failure-free
\* reconciliation on the same current date, with no start or stop between
\* the two, appends no event.
C23_SecondPassAppendsNothing ==
    [][(InitStep /\ op = "init" /\ ret = "True" /\ ret' = "True")
         => rows' = rows]_vars

\* C24: after a command of a failure-free run of the command line, the
\* events of every calendar date, in timestamp order, begin with a start and
\* alternate start, stop, and every date before the current one has an even
\* number of events.
C24_DatesAlternate ==
    op \in Commands =>
      \A d \in 0..MaxDay :
         /\ Alternates(OrderBy(StoredOn(d)))
         /\ d < clock.day => Len(StoredOn(d)) % 2 = 0

\* C25: after an operation of a failure-free run, the blocks that
\* calculate_daily_blocks returns for the stored events of any date have
\* durations of zero or more, the total of the date is at most 24 hours, and
\* the stop at the current time is added only to the events of the current
\* date: no other date has an odd number of events.
C25_BlocksWithinDay ==
    op \in Commands \cup {"init"} =>
      \A dt \in ReportDates, t \in Now :
         LET events == get_daily_events(Conn, dt)
             r == calculate_daily_blocks(events, t)
         IN /\ \A k \in 1..Len(r.blocks) : SecondsOf(r.blocks[k][3]) >= 0
            /\ SecondsOf(r.total) <= 24 * 60 * 60
            /\ Len(events) % 2 = 1 => dt.day = clock.day

====
